---- MODULE Spec2Model ----
(***************************************************************************)
(* Bridge: a BitTorrent client.  Model of the torrent engine               *)
(* (bridge/data.py: Piece, Torrent.recieve_block, Torrent.ask_for_block)   *)
(* and of the per-peer driver (bridge/client.py: PeerClient).              *)
(*                                                                         *)
(* Reading of the source: conditions, assignments, calls and exception     *)
(* handlers are modelled as written.  A call of a coroutine method of a    *)
(* Piece is modelled as running the method.  SHA-1 is modelled as an       *)
(* injective digest.                                                       *)
(***************************************************************************)
EXTENDS Integers, Sequences, FiniteSets, TLC

(* ---------------------------------------------------------------- bounds *)
NumPieces == 2
PieceLength == 2
MaxBlock == 2
MaxDownloaded == 3
NumPeers == 2
MaxSent == 2
MaxReceived == 4
MaxFrames == 2
MaxCut == 3
NumUrls == 2
MaxRounds == 2
MaxIncoming == 3

(* data.BLOCK_REQUEST_SIZE, client.BLOCK_REQUEST_SIZE *)
BLOCK_REQUEST_SIZE == 32768

None == "None"

PieceIdx == 0 .. (NumPieces - 1)
Peers == 1 .. NumPeers
(* byte values: 0 and the two values the pieces are made of *)
Byte == {0, 1, 2}
Offsets == 0 .. PieceLength

Min(a, b) == IF a < b THEN a ELSE b

RECURSIVE SeqsUpTo(_, _)
SeqsUpTo(S, n) ==
    IF n = 0 THEN {<< >>}
    ELSE LET shorter == SeqsUpTo(S, n - 1)
         IN  shorter \cup {Append(s, x) : s \in {t \in shorter : Len(t) = n - 1}, x \in S}

Blocks == SeqsUpTo(Byte, MaxBlock) \ {<< >>}

(* The bytes the metainfo's hash of piece i stands for.  Byte 0 never      *)
(* occurs in them, so a block holding a 0 is a corrupted block.            *)
Content(i) == [k \in 1 .. PieceLength |-> ((i + k - 1) % 2) + 1]

(* hashlib.sha1(...).digest(), as an injective digest *)
sha1(buf) == <<"sha1", buf>>

VARIABLES
    pieces,            \* Torrent.pieces: per index [buffer, downloaded, verified, saved]
    downloading,       \* Torrent.downloading: list of piece indexes
    total_downloaded,  \* Torrent.total_downloaded
    data_files,        \* TorrentMeta.files: the sizes of the files, in order
    disk,              \* contents of the target files
    call,              \* the recieve_block call in progress
    last,              \* the latest recieve_block call: its arguments and how it ended
    peers,             \* Torrent.swarm: per Peer [piecefield, is_choking, is_interested]
    heard,             \* per peer, what its messages have said so far: [choke, interest, bitfield, have]
    asked,             \* per peer, the request ask_for_block handed to it last
    clients,           \* per peer, its PeerClient: [status, gen, piece, out, error]
    piece_holds,       \* Torrent.piece_holds: the indexes of the claimed pieces
    received,          \* the number of messages the peers have sent so far
    stream,            \* the bytes the StreamReader of a connection still holds
    eof,               \* the remote end has closed that connection
    cut,               \* the bytes of the last frame lost when the connection closed
    sent,              \* the frames the remote end has written, in order
    reader_size,       \* the most bytes one read() returns; 0 for no limit
    iter,              \* the PeerMessageIterator: [status, logged]
    yielded,           \* the messages __anext__ has returned, in order
    hs_sent,           \* the handshake an incoming connection was meant to carry
    hs_data,           \* the bytes of it that on_incoming's read() returned
    incoming,          \* Client.on_incoming: [status, handshake, endpoint, out]
    swarm,             \* Torrent.swarm as the list of endpoints (ip, port) it holds
    swarm_holds,       \* the swarm indexes claimed by a connection (claim_peer)
    peer_clients,      \* Client._peer_clients: the endpoint of each PeerClient
    ann,               \* Torrent.announce: [url, rounds, numwant, response, error]
    ben                \* a bencoding round: [phase, x, decoded, encoded]

engineVars == <<pieces, downloading, total_downloaded, data_files, disk, call, last>>
driverVars == <<clients, piece_holds, received>>
wireVars == <<stream, eof, cut, sent, reader_size, iter, yielded>>
handshakeVars == <<hs_sent, hs_data, incoming>>
auxVars == <<swarm, swarm_holds, peer_clients, ann, ben>>
netVars == <<wireVars, handshakeVars, auxVars>>
vars == <<pieces, downloading, total_downloaded, data_files, disk, call, last, peers, heard, asked,
          clients, piece_holds, received, stream, eof, cut, sent, reader_size, iter, yielded,
          hs_sent, hs_data, incoming, swarm, swarm_holds, peer_clients, ann, ben>>

(* ------------------------------------------------------------ Piece ---- *)

(* the size of the torrent: the sum of the sizes of its files *)
RECURSIVE TotalSize(_)
TotalSize(files) == IF files = << >> THEN 0 ELSE Head(files) + TotalSize(Tail(files))

(* the number of bytes of the torrent that lie in piece i: PieceLength, or  *)
(* what is left of the torrent for its last piece                            *)
piece_bytes(i) == Min(PieceLength, TotalSize(data_files) - i * PieceLength)

(* TorrentMeta.pieces: the expected hash of every piece, the hash of the     *)
(* bytes of the torrent that lie in it                                       *)
piece_hash(i) == sha1(SubSeq(Content(i), 1, piece_bytes(i)))

(* a recycle that forgets to drop the buffer *)
recycle_keeps_buffer(p) ==
    [p EXCEPT !.downloaded = FALSE, !.verified = FALSE, !.saved = FALSE]

(* Piece.recycle *)
recycle(p) ==
    [p EXCEPT !.buffer = << >>, !.downloaded = FALSE, !.verified = FALSE, !.saved = FALSE]

(* Piece.__init__ *)
NewPiece == recycle([buffer |-> << >>, downloaded |-> FALSE, verified |-> FALSE, saved |-> FALSE])

(* bytearray slice assignment  buffer[offset:offset + len(data)] = data :   *)
(* both slice ends are clamped to the length of the buffer.                *)
SliceAssign(buf, offset, data) ==
    LET start == Min(offset, Len(buf))
        stop  == Min(offset + Len(data), Len(buf))
    IN  SubSeq(buf, 1, start) \o data \o SubSeq(buf, stop + 1, Len(buf))

(* Piece.download *)
download(p, offset, data) ==
    LET buf == SliceAssign(p.buffer, offset, data)
    IN  [p EXCEPT !.buffer = buf,
                  !.downloaded = IF Len(buf) = PieceLength THEN TRUE ELSE p.downloaded]

(* a verify that only looks at the size of the buffer *)
verify_size_only(i, p) == Len(p.buffer) = PieceLength

(* Piece.verify: the value returned *)
verify_ok(i, p) == sha1(p.buffer) = piece_hash(i)

(* Piece.verify: the piece afterwards *)
verify(i, p) == IF verify_ok(i, p) THEN [p EXCEPT !.verified = TRUE] ELSE p

(* Piece.save: the file written.  open(..., mode="w+b") truncates the file, *)
(* seek(byte_offset) and write(buffer) leave byte_offset NUL bytes before   *)
(* the buffer.                                                              *)
save_file(p, offset) ==
    LET byte_offset == offset * PieceLength
    IN  [k \in 1 .. byte_offset |-> 0] \o p.buffer

(* Piece.save: the piece afterwards *)
save(p) == [p EXCEPT !.buffer = << >>, !.saved = TRUE]

(* The state of the piece the flags stand for *)
State(p) ==
    IF p.saved THEN "SAVED"
    ELSE IF p.verified THEN "VERIFIED"
    ELSE IF p.downloaded THEN "FULL"
    ELSE "EMPTY"

(* ----------------------------------------------------------- Torrent --- *)

Ceil(a, b) == (a + b - 1) \div b

RECURSIVE PiecesBefore(_, _)
PiecesBefore(files, k) ==
    IF k <= 1 THEN 0
    ELSE PiecesBefore(files, k - 1) + Ceil(files[k - 1], PieceLength)

(* Torrent._calculate_file_indexes: the pairs (first piece index, file) of rv *)
file_indexes(files) == [k \in 1 .. Len(files) |-> <<PiecesBefore(files, k), k>>]

(* Torrent.get_piece_file: the last file whose first index is below i, or None *)
get_piece_file(files, i) ==
    LET fi   == file_indexes(files)
        hits == {k \in 1 .. Len(fi) : i > fi[k][1]}
    IN  IF hits = {} THEN None
        ELSE fi[CHOOSE k \in hits : \A j \in hits : j <= k]

(* list.remove: drops the first occurrence *)
RemoveFirst(s, x) ==
    LET at == CHOOSE k \in 1 .. Len(s) : s[k] = x /\ \A j \in 1 .. (k - 1) : s[j] # x
    IN  SubSeq(s, 1, at - 1) \o SubSeq(s, at + 1, Len(s))

(* the file and the byte offset in it at which piece i belongs *)
HomeFile(i) ==
    CHOOSE k \in 1 .. Len(data_files) :
       /\ PiecesBefore(data_files, k) <= i
       /\ i < PiecesBefore(data_files, k) + Ceil(data_files[k], PieceLength)

HomeOffset(i) == (i - PiecesBefore(data_files, HomeFile(i))) * PieceLength

(* calculate_rarity: the number of peers of the swarm that have piece i *)
rarity_of(sw, i) == Cardinality({q \in DOMAIN sw : i \in sw[q].piecefield})

(* ask_for_block, second loop: the order in which the pieces are tried:     *)
(* sorted(rp.keys(), reverse=True), and within one rarity by index          *)
TriedBefore(sw, i, j) ==
    \/ rarity_of(sw, i) > rarity_of(sw, j)
    \/ rarity_of(sw, i) = rarity_of(sw, j) /\ i < j

(* Torrent.ask_for_block: the request returned, << >> for None *)
ask_for_block(p) ==
    LET has(i)   == i \in peers[p].piecefield
        inflight == {k \in 1 .. Len(downloading) : has(downloading[k])}
        fresh    == {i \in PieceIdx : has(i)
                                      /\ \A k \in 1 .. Len(downloading) : downloading[k] # i
                                      /\ ~pieces[i].verified}
    IN  IF inflight # {}
          THEN LET i == downloading[CHOOSE k \in inflight : \A j \in inflight : k <= j]
               IN  <<i, Len(pieces[i].buffer), BLOCK_REQUEST_SIZE>>
        ELSE IF fresh # {}
          THEN LET i == CHOOSE i \in fresh : \A j \in fresh \ {i} : TriedBefore(peers, i, j)
               IN  <<i, 0, BLOCK_REQUEST_SIZE>>
        ELSE << >>

(* Bitfield as the integer it wraps: rv[0] = 1 sets the lowest bit,          *)
(* rv << 1 shifts, rv[i] reads bit i                                         *)
SetBit0(rv) == IF rv % 2 = 1 THEN rv ELSE rv + 1

ShiftLeft(rv) == rv * 2

GetBit(rv, i) == (rv \div (2 ^ i)) % 2

(* int.from_bytes(b, byteorder="big") *)
RECURSIVE from_bytes(_)
from_bytes(b) ==
    IF b = << >> THEN 0 ELSE from_bytes(SubSeq(b, 1, Len(b) - 1)) * 256 + b[Len(b)]

(* the piece indexes i at which a Bitfield reads 1 (rv[i] > 0) *)
bits_set(rv) == {i \in PieceIdx : GetBit(rv, i) = 1}

(* what a connection has been told before any message arrived *)
NothingHeard == [choke |-> None, interest |-> None, bitfield |-> << >>, have |-> {}]

(* Peer.__init__ *)
NewPeer == [piecefield |-> {}, is_choking |-> TRUE, is_interested |-> FALSE]

(* PeerClient.__init__; piece is {} for None, gen is the position of the    *)
(* respond() generator, out the messages written to the peer                *)
NewClient == [status |-> "active", gen |-> "new", piece |-> {}, out |-> << >>, error |-> None]

Idle == [pc |-> "idle", piece |-> None]

NoCall == [piece |-> None, offset |-> 0, data |-> << >>, outcome |-> None]

FileTables == {<<NumPieces * PieceLength>>, <<PieceLength, (NumPieces - 1) * PieceLength>>}

(* file tables of a torrent whose size is no multiple of the piece length:   *)
(* its last piece is one byte short                                          *)
ShortTables ==
    {<<NumPieces * PieceLength - 1>>, <<PieceLength, (NumPieces - 1) * PieceLength - 1>>}

(* ------------------------------------------------------ wire codec ---- *)

(* struct.pack(">I", n): four bytes, most significant first *)
pack_I(n) == <<(n \div 16777216) % 256, (n \div 65536) % 256, (n \div 256) % 256, n % 256>>

(* four bytes read least significant first *)
unpack_I_le(b) == b[4] * 16777216 + b[3] * 65536 + b[2] * 256 + b[1]

(* struct.unpack(">I", b) of exactly four bytes *)
unpack_I(b) == b[1] * 16777216 + b[2] * 65536 + b[3] * 256 + b[4]

(* struct.pack(">H", n) and struct.unpack(">H", b) *)
pack_H(n) == <<(n \div 256) % 256, n % 256>>

unpack_H(b) == b[1] * 256 + b[2]

(* the byte slice data[a:b] of Python, positions counted from 0 *)
Slice(data, a, b) == SubSeq(data, a + 1, Min(b, Len(data)))

(* the message classes; length is the class attribute or the one __init__ sets *)
KeepAlivePeerMessage == [type |-> "KeepAlive", length |-> 0]

ChokePeerMessage == [type |-> "Choke", length |-> 1]

UnchokePeerMessage == [type |-> "Unchoke", length |-> 1]

InterestedPeerMessage == [type |-> "Interested", length |-> 1]

NotInterestedPeerMessage == [type |-> "NotInterested", length |-> 1]

HavePeerMessage(piece_index) == [type |-> "Have", length |-> 5, piece_index |-> piece_index]

BitfieldPeerMessage(bits) == [type |-> "Bitfield", length |-> 1 + Len(bits), bitfield |-> bits]

RequestPeerMessage(index, begin, size) ==
    [type |-> "Request", length |-> 13, index |-> index, begin |-> begin, size |-> size]

BlockPeerMessage(index, begin, block) ==
    [type |-> "Block", length |-> 9 + Len(block), index |-> index, begin |-> begin, block |-> block]

CancelPeerMessage(index, begin, size) ==
    [type |-> "Cancel", length |-> 13, index |-> index, begin |-> begin, size |-> size]

PortPeerMessage(port) == [type |-> "Port", length |-> 3, port |-> port]

(* the message_id each class is registered with in PeerMessage.id_map *)
message_id(type) ==
    CASE type = "Choke" -> 0
      [] type = "Unchoke" -> 1
      [] type = "Interested" -> 2
      [] type = "NotInterested" -> 3
      [] type = "Have" -> 4
      [] type = "Bitfield" -> 5
      [] type = "Request" -> 6
      [] type = "Block" -> 7
      [] type = "Cancel" -> 8
      [] type = "Port" -> 9

id_map == 0 .. 9

(* PeerMessage.encode: struct.pack(">Ib", length, message_id) *)
encode_header(m) == pack_I(m.length) \o <<message_id(m.type)>>

(* encode() of each class *)
encode(m) ==
    CASE m.type = "KeepAlive" -> <<0, 0, 0, 0>>
      [] m.type = "Have" -> encode_header(m) \o pack_I(m.piece_index)
      [] m.type = "Bitfield" -> encode_header(m) \o m.bitfield
      [] m.type \in {"Request", "Cancel"} ->
            encode_header(m) \o pack_I(m.index) \o pack_I(m.begin) \o pack_I(m.size)
      [] m.type = "Block" -> encode_header(m) \o pack_I(m.index) \o pack_I(m.begin) \o m.block
      [] m.type = "Port" -> encode_header(m) \o pack_H(m.port)
      [] OTHER -> encode_header(m)

(* decode() of the class registered with id, applied to the payload data:  *)
(* <<"ok", message>>, or <<"struct.error">> when struct.unpack is handed a  *)
(* buffer of the wrong size                                                  *)
decode(id, data) ==
    CASE id = 0 -> <<"ok", ChokePeerMessage>>
      [] id = 1 -> <<"ok", UnchokePeerMessage>>
      [] id = 2 -> <<"ok", InterestedPeerMessage>>
      [] id = 3 -> <<"ok", NotInterestedPeerMessage>>
      [] id = 4 -> IF Len(data) = 4 THEN <<"ok", HavePeerMessage(unpack_I(data))>>
                   ELSE <<"struct.error">>
      [] id = 5 -> <<"ok", BitfieldPeerMessage(data)>>
      [] id = 6 -> IF Len(data) = 12
                     THEN <<"ok", RequestPeerMessage(unpack_I(Slice(data, 0, 4)),
                                                     unpack_I(Slice(data, 4, 8)),
                                                     unpack_I(Slice(data, 8, 12)))>>
                   ELSE <<"struct.error">>
      [] id = 7 -> IF Len(Slice(data, 0, 8)) = 8
                     THEN <<"ok", BlockPeerMessage(unpack_I(Slice(data, 0, 4)),
                                                   unpack_I(Slice(data, 4, 8)),
                                                   Slice(data, 8, Len(data)))>>
                   ELSE <<"struct.error">>
      [] id = 8 -> IF Len(data) = 12
                     THEN <<"ok", CancelPeerMessage(unpack_I(Slice(data, 0, 4)),
                                                    unpack_I(Slice(data, 4, 8)),
                                                    unpack_I(Slice(data, 8, 12)))>>
                   ELSE <<"struct.error">>
      [] id = 9 -> IF Len(data) = 2 THEN <<"ok", PortPeerMessage(unpack_H(data))>>
                   ELSE <<"struct.error">>

(* the number of bytes StreamReader.read(n) returns from the bytes buf it holds *)
read_len(n, buf) ==
    IF reader_size = 0 THEN Min(n, Len(buf)) ELSE Min(Min(reader_size, n), Len(buf))

(* PeerMessageIterator.__anext__ on the bytes buf, the remote end closed or *)
(* not: [status, message, rest, logged]; status "blocked" when the second   *)
(* read() has to wait for bytes that have not arrived                        *)
anext(buf, closed) ==
    LET n1            == read_len(4, buf)
        length_prefix == SubSeq(buf, 1, n1)
        rest1         == SubSeq(buf, n1 + 1, Len(buf))
        result(st, msg, rest, lg) == [status |-> st, message |-> msg, rest |-> rest, logged |-> lg]
    IN  IF length_prefix = << >> THEN result("StopAsyncIteration", << >>, rest1, << >>)
        ELSE IF Len(length_prefix) # 4 THEN result("struct.error", << >>, rest1, << >>)
        ELSE LET length == unpack_I(length_prefix)
             IN  IF length = 0 THEN result("return", <<KeepAlivePeerMessage>>, rest1, << >>)
                 ELSE IF rest1 = << >> /\ ~closed THEN result("blocked", << >>, rest1, << >>)
                 ELSE LET n2    == read_len(length, rest1)
                          data  == SubSeq(rest1, 1, n2)
                          rest2 == SubSeq(rest1, n2 + 1, Len(rest1))
                      IN  IF data = << >> THEN result("IndexError", << >>, rest2, << >>)
                          ELSE IF data[1] \notin id_map
                            THEN result("StopAsyncIteration", << >>, rest2, <<data[1]>>)
                          ELSE LET d == decode(data[1], Slice(data, 1, Len(data)))
                               IN  IF d[1] = "ok" THEN result("return", <<d[2]>>, rest2, << >>)
                                   ELSE result("struct.error", << >>, rest2, << >>)

(* the values the integer fields of the messages are drawn from *)
WireTriples == {<<0, 0, 0>>, <<1, 258, 16909060>>}

WirePayloads == {<< >>, <<7>>, <<1, 2>>}

(* the messages the remote end may send: the eleven framed cases *)
Messages ==
    {KeepAlivePeerMessage, ChokePeerMessage, UnchokePeerMessage, InterestedPeerMessage,
     NotInterestedPeerMessage}
    \cup {HavePeerMessage(t[3]) : t \in WireTriples}
    \cup {BitfieldPeerMessage(b) : b \in WirePayloads}
    \cup {RequestPeerMessage(t[1], t[2], t[3]) : t \in WireTriples}
    \cup {BlockPeerMessage(t[1], t[2], b) : t \in WireTriples, b \in WirePayloads \ {<<7>>}}
    \cup {CancelPeerMessage(t[3], t[2], t[1]) : t \in WireTriples}
    \cup {PortPeerMessage(t[2]) : t \in WireTriples}

(* a frame whose id byte no message class is registered with *)
UnknownFrame(id, payload) ==
    [type |-> "Unknown", length |-> 1 + Len(payload), id |-> id, payload |-> payload]

UnknownFrames == {UnknownFrame(10, << >>), UnknownFrame(255, <<7>>)}

(* the bytes of a frame on the wire *)
frame_bytes(f) ==
    IF f.type = "Unknown" THEN pack_I(f.length) \o <<f.id>> \o f.payload ELSE encode(f)

(* the read sizes tried: no limit, and readers that return at most k bytes *)
ReaderSizes == {0, 3, 5}

(* PeerMessageIterator before __init__ has been handed its reader *)
NewIterator == [status |-> "new", logged |-> << >>]

(* ------------------------------------------------------- handshake ---- *)

(* "BitTorrent protocol" as the bytes str.encode() gives *)
PROTOCOL_STRING ==
    <<66, 105, 116, 84, 111, 114, 114, 101, 110, 116, 32, 112, 114, 111, 116, 111, 99, 111, 108>>

MAX_PEERS == 55

(* bytes(n) *)
Zeros(n) == [k \in 1 .. n |-> 0]

(* HandshakeMessage.__init__ *)
HandshakeMessage(info_hash, peer_id, protocol_string, reserved) ==
    [info_hash |-> info_hash, peer_id |-> peer_id,
     protocol_string |-> protocol_string, reserved |-> reserved]

(* HandshakeMessage(info_hash, peer_id) with the default arguments *)
DefaultHandshake(info_hash, peer_id) ==
    HandshakeMessage(info_hash, peer_id, PROTOCOL_STRING, Zeros(8))

(* HandshakeMessage.encode *)
handshake_encode(h) ==
    <<Len(h.protocol_string)>> \o h.protocol_string \o h.reserved \o h.info_hash \o h.peer_id

(* a decoder that takes the info hash to follow the protocol string directly *)
info_hash_index_no_reserved(data) == 1 + data[1]

(* HandshakeMessage.decode: reserved_index + 8 *)
info_hash_index(data) == (1 + data[1]) + 8

(* HandshakeMessage.decode: <<"ok", handshake>>, <<"IndexError">> for data[0] *)
(* of no bytes, <<"UnicodeDecodeError">> for a protocol string that is not   *)
(* ASCII                                                                      *)
handshake_decode(data) ==
    IF data = << >> THEN <<"IndexError">>
    ELSE LET reserved_index == 1 + data[1]
             peer_id_index  == info_hash_index(data) + 20
             pstring        == Slice(data, 1, reserved_index)
         IN  IF \E k \in 1 .. Len(pstring) : pstring[k] >= 128 THEN <<"UnicodeDecodeError">>
             ELSE <<"ok", HandshakeMessage(Slice(data, info_hash_index(data), peer_id_index),
                                           Slice(data, peer_id_index, Len(data)),
                                           pstring,
                                           Slice(data, reserved_index, info_hash_index(data)))>>

(* the info hash of the torrent served, and one that is not served *)
OurInfoHash == [k \in 1 .. 20 |-> k]

InfoHashes == {OurInfoHash, [k \in 1 .. 20 |-> 200 + k]}

OurPeerId == [k \in 1 .. 20 |-> 45]

PeerIds == {[k \in 1 .. 20 |-> 45], [k \in 1 .. 20 |-> 100 + k]}

ProtocolStrings == {PROTOCOL_STRING, [PROTOCOL_STRING EXCEPT ![1] = 194]}

(* the handshakes a remote end may build *)
Handshakes ==
    {HandshakeMessage(ih, pid, ps, Zeros(8)) :
        ih \in InfoHashes, pid \in PeerIds, ps \in ProtocolStrings}

(* Client.on_incoming before a connection has come in *)
NoIncoming == [status |-> "listening", handshake |-> << >>, endpoint |-> 0, out |-> << >>]

(* -------------------------------------------------- tracker, swarm ---- *)

NEW_CONNECTION_LIMIT == 30

Max(a, b) == IF a > b THEN a ELSE b

(* the answers of a tracker to one announce request: a peer list (of as many *)
(* peers as were asked for, or one that names an endpoint twice), a failure *)
(* reason, a status other than 200, or no connection at all                 *)
TrackerResponses ==
    {[kind |-> "ok", peers |-> [k \in 1 .. NEW_CONNECTION_LIMIT |-> k]],
     [kind |-> "ok", peers |-> [k \in 1 .. NEW_CONNECTION_LIMIT |-> NEW_CONNECTION_LIMIT + k]],
     [kind |-> "ok", peers |-> <<1, 1>>],
     [kind |-> "failure", peers |-> << >>],
     [kind |-> "http", peers |-> << >>],
     [kind |-> "unreachable", peers |-> << >>]}

(* the endpoints inbound connections come from: one the trackers also name, *)
(* one they do not                                                           *)
Endpoints == {1, 2 * NEW_CONNECTION_LIMIT + 1}

(* Torrent.announce before its first request *)
NoAnnounce ==
    [url |-> 1, rounds |-> 1, numwant |-> 0, response |-> None, requests |-> 0, error |-> None]

(* ------------------------------------------------------- bencoding ---- *)

TOKEN_STRING_SEPARATOR == 58
TOKEN_INTEGER == 105
TOKEN_LIST == 108
TOKEN_DICTIONARY == 100
TOKEN_END == 101

is_byte_digit(b) == b >= 48 /\ b <= 57

(* s[a:] *)
From(s, a) == SubSeq(s, a + 1, Len(s))

(* int() of a string of decimal digits *)
RECURSIVE int_of(_)
int_of(digits) ==
    IF digits = << >> THEN 0
    ELSE int_of(SubSeq(digits, 1, Len(digits) - 1)) * 10 + (digits[Len(digits)] - 48)

(* str() of an integer, as bytes *)
RECURSIVE str_of(_)
str_of(n) ==
    IF n < 0 THEN <<45>> \o str_of(0 - n)
    ELSE IF n < 10 THEN <<48 + n>>
    ELSE str_of(n \div 10) \o <<48 + (n % 10)>>

(* extract_int: the loop index at which the first byte that is no digit is *)
(* found, Len(s) when the loop runs off the end                             *)
RECURSIVE digits_end(_, _)
digits_end(s, i) ==
    IF i >= Len(s) THEN Len(s)
    ELSE IF is_byte_digit(s[i + 1]) THEN digits_end(s, i + 1) ELSE i

Raised(error) == [status |-> error]

Returned(value, rest) == [status |-> "ok", value |-> value, rest |-> rest, none |-> FALSE]

(* extract_int *)
extract_int(s) ==
    LET i == digits_end(s, 0)
    IN  IF i >= Len(s) THEN Raised("IndexError")
        ELSE IF i = 0 THEN Raised("ValueError")
        ELSE Returned(int_of(SubSeq(s, 1, i)), From(s, i))

(* _decode_bytestring *)
decode_bytestring(s) ==
    LET r == extract_int(s)
    IN  IF r.status # "ok" THEN r
        ELSE IF r.rest[1] = TOKEN_STRING_SEPARATOR
          THEN Returned(<<"bytes", Slice(r.rest, 1, r.value + 1)>>, From(r.rest, r.value + 1))
        ELSE Raised("RuntimeError")

(* _decode_int *)
decode_int(s) ==
    LET r == extract_int(From(s, 1))
    IN  IF r.status # "ok" THEN r
        ELSE IF r.rest[1] = TOKEN_END THEN Returned(<<"int", r.value>>, From(r.rest, 1))
        ELSE Raised("RuntimeError")

(* dict_accumulator[key] = value on the list of pairs of an OrderedDict *)
dict_set(acc, key, value) ==
    IF \E k \in 1 .. Len(acc) : acc[k][1][1] = key[1] /\ acc[k][1] = key
      THEN [k \in 1 .. Len(acc) |->
              IF acc[k][1][1] = key[1] /\ acc[k][1] = key THEN <<key, value>> ELSE acc[k]]
    ELSE Append(acc, <<key, value>>)

RECURSIVE bencoding_decode(_)
RECURSIVE decode_list(_, _)
RECURSIVE decode_dict(_, _)

(* decode: [status, value, rest]; none for the (None, None) of empty input *)
bencoding_decode(s) ==
    IF Len(s) = 0 THEN [status |-> "ok", value |-> <<"None">>, rest |-> << >>, none |-> TRUE]
    ELSE IF is_byte_digit(s[1]) THEN decode_bytestring(s)
    ELSE IF s[1] = TOKEN_INTEGER THEN decode_int(s)
    ELSE IF s[1] = TOKEN_LIST THEN decode_list(From(s, 1), << >>)
    ELSE IF s[1] = TOKEN_DICTIONARY THEN decode_dict(From(s, 1), << >>)
    ELSE Raised("RuntimeError")

(* _decode_list: the loop, entered with the list accumulated so far *)
decode_list(remainder, list_accumulator) ==
    LET r == bencoding_decode(remainder)
    IN  IF r.status # "ok" THEN r
        ELSE IF r.none THEN Raised("TypeError")
        ELSE IF Len(r.rest) = 0 \/ r.rest[1] = TOKEN_END
          THEN Returned(<<"list", Append(list_accumulator, r.value)>>, From(r.rest, 1))
        ELSE decode_list(r.rest, Append(list_accumulator, r.value))

(* _decode_dict: the loop, entered with the pairs accumulated so far *)
decode_dict(remainder, dict_accumulator) ==
    LET k == bencoding_decode(remainder)
    IN  IF k.status # "ok" THEN k
        ELSE IF k.none THEN Raised("TypeError")
        ELSE LET v == bencoding_decode(k.rest)
             IN  IF v.status # "ok" THEN v
                 ELSE IF v.none THEN Raised("TypeError")
                 ELSE IF Len(v.rest) = 0 \/ v.rest[1] = TOKEN_END
                   THEN Returned(<<"dict", dict_set(dict_accumulator, k.value, v.value)>>,
                                 From(v.rest, 1))
                 ELSE decode_dict(v.rest, dict_set(dict_accumulator, k.value, v.value))

(* b''.join(parts) of encode results: TypeError when a part is None *)
RECURSIVE join(_)
join(parts) ==
    IF parts = << >> THEN <<"ok", << >>>>
    ELSE LET rest == join(Tail(parts))
         IN  IF Head(parts)[1] # "ok" THEN <<"TypeError">>
             ELSE IF rest[1] # "ok" THEN rest
             ELSE <<"ok", Head(parts)[2] \o rest[2]>>

(* encode: <<"ok", bytes>>, <<"None">> for a value of a type none of its    *)
(* branches takes (bytes are not str), <<"TypeError">> from a join or a sum *)
RECURSIVE bencoding_encode(_)
bencoding_encode(data) ==
    IF data[1] = "str" THEN <<"ok", str_of(Len(data[2])) \o <<TOKEN_STRING_SEPARATOR>> \o data[2]>>
    ELSE IF data[1] = "int" THEN <<"ok", <<TOKEN_INTEGER>> \o str_of(data[2]) \o <<TOKEN_END>>>>
    ELSE IF data[1] = "list"
      THEN LET j == join([k \in 1 .. Len(data[2]) |-> bencoding_encode(data[2][k])])
           IN  IF j[1] = "ok" THEN <<"ok", <<TOKEN_LIST>> \o j[2] \o <<TOKEN_END>>>> ELSE j
    ELSE IF data[1] = "dict"
      THEN LET j == join([k \in 1 .. Len(data[2]) |->
                            join(<<bencoding_encode(data[2][k][1]),
                                   bencoding_encode(data[2][k][2])>>)])
           IN  IF j[1] = "ok" THEN <<"ok", <<TOKEN_DICTIONARY>> \o j[2] \o <<TOKEN_END>>>> ELSE j
    ELSE <<"None">>

(* well-formed bencoded inputs: integers, byte strings, lists and           *)
(* dictionaries of them, nested lists                                        *)
BenInts == {<<105, 48, 101>>, <<105, 52, 50, 101>>, <<105, 45, 51, 101>>}

BenStrings == {<<48, 58>>, <<49, 58, 97>>, <<52, 58, 115, 112, 97, 109>>}

BenAtoms == BenInts \cup BenStrings

BenLists ==
    {<<TOKEN_LIST, TOKEN_END>>} \cup {<<TOKEN_LIST>> \o a \o <<TOKEN_END>> : a \in BenAtoms}

BenInputs ==
    BenAtoms \cup BenLists
    \cup {<<TOKEN_LIST>> \o a \o b \o <<TOKEN_END>> : a, b \in BenAtoms}
    \cup {<<TOKEN_LIST>> \o x \o <<TOKEN_END>> : x \in BenLists}
    \cup {<<TOKEN_DICTIONARY, TOKEN_END>>}
    \cup {<<TOKEN_DICTIONARY>> \o k \o v \o <<TOKEN_END>> : k \in BenStrings, v \in BenAtoms \cup BenLists}

NoBencoding == [phase |-> "idle", x |-> << >>, decoded |-> Raised(None), encoded |-> <<None>>]

(* the state after construction of everything but the pieces and the files *)
InitRest ==
    /\ downloading = << >>
    /\ total_downloaded = 0
    /\ call = Idle
    /\ last = NoCall
    /\ peers = [p \in Peers |-> NewPeer]
    /\ heard = [p \in Peers |-> NothingHeard]
    /\ asked = [p \in Peers |-> << >>]
    /\ clients = [p \in Peers |-> NewClient]
    /\ piece_holds = {}
    /\ received = 0
    /\ stream = << >>
    /\ eof = FALSE
    /\ cut = 0
    /\ sent = << >>
    /\ reader_size = 0
    /\ iter = NewIterator
    /\ yielded = << >>
    /\ hs_sent = << >>
    /\ hs_data = << >>
    /\ incoming = NoIncoming
    /\ swarm = << >>
    /\ swarm_holds = {}
    /\ peer_clients = << >>
    /\ ann = NoAnnounce
    /\ ben = NoBencoding

InitWith(tables) ==
    /\ pieces = [i \in PieceIdx |-> NewPiece]
    /\ data_files \in tables
    /\ disk = [f \in 1 .. Len(data_files) |-> << >>]
    /\ InitRest

Init == InitWith(FileTables)

(* the requests still outstanding once the transfer of piece i has ended *)
Settled(i) == [p \in Peers |-> IF asked[p] # << >> /\ asked[p][1] = i THEN << >> ELSE asked[p]]

(* Torrent.recieve_block up to the test of p.downloaded *)
RecieveBlock(i, offset, data) ==
    /\ call.pc = "idle"
    /\ total_downloaded + Len(data) <= MaxDownloaded
    /\ downloading' = Append(downloading, i)
    /\ total_downloaded' = total_downloaded + Len(data)
    /\ pieces' = [pieces EXCEPT ![i] = download(pieces[i], offset, data)]
    /\ IF pieces'[i].downloaded
         THEN /\ call' = [pc |-> "verify", piece |-> i]
              /\ last' = [piece |-> i, offset |-> offset, data |-> data, outcome |-> "running"]
         ELSE /\ call' = Idle
              /\ last' = [piece |-> i, offset |-> offset, data |-> data, outcome |-> "partial"]
    /\ UNCHANGED <<netVars, data_files, disk, peers, heard, asked, driverVars>>

(* a recieve_block that tests the coroutine object instead of its result *)
VerifyStepNoAwait ==
    /\ call.pc = "verify"
    /\ pieces' = [pieces EXCEPT ![call.piece] = verify(call.piece, pieces[call.piece])]
    /\ call' = [call EXCEPT !.pc = "verified"]
    /\ UNCHANGED <<netVars, downloading, total_downloaded, data_files, disk, last, peers, heard, asked, driverVars>>

(* recieve_block: if await p.verify() *)
VerifyStep ==
    /\ call.pc = "verify"
    /\ pieces' = [pieces EXCEPT ![call.piece] = verify(call.piece, pieces[call.piece])]
    /\ call' = [call EXCEPT !.pc = IF verify_ok(call.piece, pieces[call.piece])
                                     THEN "verified" ELSE "mismatch"]
    /\ UNCHANGED <<netVars, downloading, total_downloaded, data_files, disk, last, peers, heard, asked, driverVars>>

(* recieve_block: get_piece_file finds no file; unpacking None raises *)
SaveNoFile ==
    /\ call.pc = "verified"
    /\ get_piece_file(data_files, call.piece) = None
    /\ call' = Idle
    /\ last' = [last EXCEPT !.outcome = "TypeError"]
    /\ UNCHANGED <<netVars, pieces, downloading, total_downloaded, data_files, disk, peers, heard, driverVars>>
    /\ asked' = Settled(call.piece)

(* recieve_block: p.save(f, piece_offset) succeeds; finally *)
SaveOk ==
    /\ call.pc = "verified"
    /\ get_piece_file(data_files, call.piece) # None
    /\ LET i  == call.piece
           gf == get_piece_file(data_files, i)
           piece_offset == i - gf[1]
       IN  /\ disk' = [disk EXCEPT ![gf[2]] = save_file(pieces[i], piece_offset)]
           /\ pieces' = [pieces EXCEPT ![i] = save(pieces[i])]
           /\ downloading' = RemoveFirst(downloading, i)
           /\ last' = [last EXCEPT !.outcome = "saved"]
    /\ call' = Idle
    /\ UNCHANGED <<netVars, total_downloaded, data_files, peers, heard, driverVars>>
    /\ asked' = Settled(call.piece)

(* recieve_block: p.save raises OSError, at open (the file is untouched) or *)
(* at write (the file was truncated by open); except OSError; finally       *)
SaveOSError ==
    /\ call.pc = "verified"
    /\ get_piece_file(data_files, call.piece) # None
    /\ LET i  == call.piece
           gf == get_piece_file(data_files, i)
       IN  /\ \E at \in {"open", "write"} :
                 disk' = IF at = "open" THEN disk ELSE [disk EXCEPT ![gf[2]] = << >>]
           /\ pieces' = [pieces EXCEPT ![i] = recycle(pieces[i])]
           /\ downloading' = RemoveFirst(downloading, i)
           /\ last' = [last EXCEPT !.outcome = "OSError"]
    /\ call' = Idle
    /\ UNCHANGED <<netVars, total_downloaded, data_files, peers, heard, driverVars>>
    /\ asked' = Settled(call.piece)

(* Piece.save(file, offset), as recieve_block calls it on a verified piece *)
PieceSave(i, f, offset) ==
    /\ call.pc = "idle"
    /\ State(pieces[i]) = "VERIFIED"
    /\ disk' = [disk EXCEPT ![f] = save_file(pieces[i], offset)]
    /\ pieces' = [pieces EXCEPT ![i] = save(@)]
    /\ last' = [piece |-> i, offset |-> offset, data |-> pieces[i].buffer, outcome |-> "saved"]
    /\ UNCHANGED <<netVars, downloading, total_downloaded, data_files, call, peers, heard,
                   asked, driverVars>>

(* recieve_block: the piece failed to verify; p.recycle() *)
RecycleStep ==
    /\ call.pc = "mismatch"
    /\ pieces' = [pieces EXCEPT ![call.piece] = recycle(pieces[call.piece])]
    /\ call' = Idle
    /\ last' = [last EXCEPT !.outcome = "mismatch"]
    /\ UNCHANGED <<netVars, downloading, total_downloaded, data_files, disk, peers, heard, driverVars>>
    /\ asked' = Settled(call.piece)

(* ------------------------------------------------------- PeerClient --- *)

(* the respond() generator of some connection is running between two yields *)
Responding == \E c \in Peers : clients[c].gen \in {"top", "inner"}

(* handle() is waiting for the next batch of messages of peer c *)
Receiving(c) == call.pc = "idle" /\ clients[c].status = "active" /\ ~Responding

(* peer c sends one more message *)
Receive == received < MaxReceived /\ received' = received + 1

(* an exception leaves handle(): the driver task ends; nothing is cleaned up *)
Ended(cl, err) == [cl EXCEPT !.status = "ended", !.gen = "closed", !.error = err]

(* PeerClient._handle_choke *)
HandleChoke(c) ==
    /\ Receiving(c)
    /\ Receive
    /\ peers' = [peers EXCEPT ![c].is_choking = TRUE]
    /\ heard' = [heard EXCEPT ![c].choke = "Choke"]
    /\ UNCHANGED <<netVars, engineVars, asked, clients, piece_holds>>

(* PeerClient._handle_unchoke *)
HandleUnchoke(c) ==
    /\ Receiving(c)
    /\ Receive
    /\ peers' = [peers EXCEPT ![c].is_choking = FALSE]
    /\ heard' = [heard EXCEPT ![c].choke = "Unchoke"]
    /\ UNCHANGED <<netVars, engineVars, asked, clients, piece_holds>>

(* PeerClient._handle_interested: the peer afterwards *)
handle_interested(p) == [p EXCEPT !.is_interested = TRUE]

(* a handler of NOT_INTERESTED that sets the flag *)
handle_not_interested_sets(p) == [p EXCEPT !.is_interested = TRUE]

(* PeerClient._handle_not_interested: the peer afterwards *)
handle_not_interested(p) == [p EXCEPT !.is_interested = FALSE]

(* PeerClient._handle_interested *)
HandleInterested(c) ==
    /\ Receiving(c)
    /\ Receive
    /\ peers' = [peers EXCEPT ![c] = handle_interested(@)]
    /\ heard' = [heard EXCEPT ![c].interest = "Interested"]
    /\ UNCHANGED <<netVars, engineVars, asked, clients, piece_holds>>

(* PeerClient._handle_not_interested *)
HandleNotInterested(c) ==
    /\ Receiving(c)
    /\ Receive
    /\ peers' = [peers EXCEPT ![c] = handle_not_interested(@)]
    /\ heard' = [heard EXCEPT ![c].interest = "NotInterested"]
    /\ UNCHANGED <<netVars, engineVars, asked, clients, piece_holds>>

(* PeerClient._handle_bitfield: the piecefield becomes the Bitfield of the  *)
(* integer the payload spells                                                *)
HandleBitfield(c, payload) ==
    /\ Receiving(c)
    /\ Receive
    /\ peers' = [peers EXCEPT ![c].piecefield = bits_set(from_bytes(payload))]
    /\ heard' = [heard EXCEPT ![c].bitfield = <<payload>>, ![c].have = {}]
    /\ UNCHANGED <<netVars, engineVars, asked, clients, piece_holds>>

(* PeerClient._handle_have *)
HandleHave(p, i) ==
    /\ Receiving(p)
    /\ Receive
    /\ peers' = [peers EXCEPT ![p].piecefield = @ \cup {i}]
    /\ heard' = [heard EXCEPT ![p].have = @ \cup {i}]
    /\ UNCHANGED <<netVars, engineVars, asked, clients, piece_holds>>

(* PeerClient.handle on a KeepAlivePeerMessage: the keep-alive is echoed,   *)
(* then the look-up of the handler by type raises KeyError                  *)
HandleKeepAlive(c) ==
    /\ Receiving(c)
    /\ Receive
    /\ Len(clients[c].out) < MaxSent
    /\ clients' = [clients EXCEPT
          ![c] = Ended([@ EXCEPT !.out = Append(@, <<"KeepAlive">>)], "KeyError")]
    /\ UNCHANGED <<netVars, engineVars, peers, heard, asked, piece_holds>>

(* Piece.load (Piece.write of the design): effective only on an EMPTY piece *)
load(p, begin, block) == IF State(p) = "EMPTY" THEN download(p, begin, block) ELSE p

(* PeerClient._handle_block *)
HandleBlock(c, index, begin, block) ==
    /\ Receiving(c)
    /\ Receive
    /\ IF clients[c].piece = {}
         THEN /\ clients' = [clients EXCEPT ![c] = Ended(@, "AttributeError")]
              /\ UNCHANGED pieces
         ELSE /\ pieces' = [i \in PieceIdx |->
                    IF i = index /\ i \in clients[c].piece
                      THEN load(pieces[i], begin, block) ELSE pieces[i]]
              /\ UNCHANGED clients
    /\ UNCHANGED <<netVars, downloading, total_downloaded, data_files, disk, call, last,
                   peers, heard, asked, piece_holds>>

(* the task of the driver is cancelled while it waits for messages *)
CancelDriver(c) ==
    /\ Receiving(c)
    /\ clients' = [clients EXCEPT ![c] = Ended(@, "CancelledError")]
    /\ UNCHANGED <<netVars, engineVars, peers, heard, asked, piece_holds, received>>

(* Torrent.claim_piece: the pieces it may return to a peer with this piecefield *)
claimable(piecefield) ==
    {i \in piecefield : i \notin piece_holds /\ State(pieces[i]) \in {"EMPTY", "FULL"}}

(* Torrent.return_piece *)
return_piece(i) == piece_holds \ {i}

(* PeerClient.handle: respond_sm.asend() resumes the generator where it yielded *)
RespondResume(c) ==
    /\ Receiving(c)
    /\ Len(clients[c].out) < MaxSent
    /\ clients' = [clients EXCEPT ![c] =
          IF @.gen = "new" THEN [@ EXCEPT !.gen = "top"]
          ELSE IF @.gen = "at_request" THEN [@ EXCEPT !.gen = "inner"]
          ELSE Ended(@, "StopAsyncIteration")]
    /\ UNCHANGED <<netVars, engineVars, peers, heard, asked, piece_holds, received>>

(* PeerClient.respond, head of the outer loop: the choke test and claim_piece *)
RespondTop(c) ==
    /\ clients[c].gen = "top"
    /\ IF peers[c].is_choking
         THEN /\ clients' = [clients EXCEPT ![c].gen = "at_interested",
                                             ![c].out = Append(@, <<"Interested">>)]
              /\ UNCHANGED piece_holds
         ELSE IF claimable(peers[c].piecefield) = {}
           THEN /\ clients' = [clients EXCEPT ![c] = Ended(@, "AttributeError")]
                /\ UNCHANGED piece_holds
           ELSE \E i \in claimable(peers[c].piecefield) :
                  /\ clients' = [clients EXCEPT ![c].gen = "inner", ![c].piece = {i}]
                  /\ piece_holds' = piece_holds \cup {i}
    /\ UNCHANGED <<netVars, engineVars, peers, heard, asked, received>>

(* Piece.save of the design: the buffer written in place at its byte offset *)
write_at(file, byte_offset, buf) ==
    [k \in 1 .. (IF Len(file) > byte_offset + Len(buf) THEN Len(file) ELSE byte_offset + Len(buf)) |->
        IF k > byte_offset /\ k <= byte_offset + Len(buf) THEN buf[k - byte_offset]
        ELSE IF k <= Len(file) THEN file[k] ELSE 0]

(* a respond that goes back to the head of its loop with self.piece still set *)
drop_piece_keeps(cl) == [cl EXCEPT !.gen = "top"]

(* PeerClient.respond, end of the outer loop: self.piece = None *)
drop_piece(cl) == [cl EXCEPT !.gen = "top", !.piece = {}]

(* PeerClient.respond, one turn of the inner loop on the claimed piece *)
RespondInner(c) ==
    /\ clients[c].gen = "inner"
    /\ LET i  == CHOOSE i \in PieceIdx : i \in clients[c].piece
           st == State(pieces[i])
           released == [clients EXCEPT ![c] = drop_piece(@)]
       IN  \/ /\ st = "EMPTY"
              /\ clients' = [clients EXCEPT
                    ![c].gen = "at_request",
                    ![c].out = Append(@, <<"Request", i, Len(pieces[i].buffer), BLOCK_REQUEST_SIZE>>)]
              /\ UNCHANGED <<pieces, disk, piece_holds>>
           \/ /\ st = "FULL"
              /\ IF verify_ok(i, pieces[i])
                   THEN /\ pieces' = [pieces EXCEPT ![i] = verify(i, @)]
                        /\ UNCHANGED <<clients, piece_holds>>
                   ELSE /\ pieces' = [pieces EXCEPT ![i] = recycle(@)]
                        /\ clients' = released
                        /\ piece_holds' = return_piece(i)
              /\ UNCHANGED disk
           \/ /\ st = "VERIFIED"
              /\ \/ /\ disk' = [disk EXCEPT ![HomeFile(i)] = write_at(@, HomeOffset(i), pieces[i].buffer)]
                    /\ pieces' = [pieces EXCEPT ![i] = save(@)]
                    /\ UNCHANGED clients
                 \/ /\ clients' = [clients EXCEPT ![c] = Ended(@, "OSError")]
                    /\ UNCHANGED <<pieces, disk>>
              /\ UNCHANGED piece_holds
           \/ /\ st = "SAVED"
              /\ clients' = released
              /\ piece_holds' = return_piece(i)
              /\ UNCHANGED <<pieces, disk>>
    /\ UNCHANGED <<netVars, downloading, total_downloaded, data_files, call, last, peers, heard, asked, received>>

(* Torrent.ask_for_block(remote_peer); the request is handed to the peer's connection *)
AskForBlock(p) ==
    /\ call.pc = "idle"
    /\ asked' = [asked EXCEPT ![p] = ask_for_block(p)]
    /\ UNCHANGED <<netVars, engineVars, peers, heard, driverVars>>

(* a peer answers the request it was handed with a block of the piece, good or corrupted *)
Answers(p) ==
    LET i   == asked[p][1]
        off == asked[p][2]
    IN  {blk \in Blocks :
            /\ off + Len(blk) <= PieceLength
            /\ \/ blk = SubSeq(Content(i), off + 1, off + Len(blk))
               \/ blk = [k \in 1 .. Len(blk) |-> 0]}

(* ------------------------------------------------ frame iterator ------ *)

(* PeerMessageIterator(reader), the reader returning at most k bytes a read *)
NewReader(k) ==
    /\ iter.status = "new"
    /\ iter' = [iter EXCEPT !.status = "open"]
    /\ reader_size' = k
    /\ UNCHANGED <<engineVars, peers, heard, asked, driverVars, handshakeVars, auxVars,
                   stream, eof, cut, sent, yielded>>

(* the remote end writes one whole frame *)
SendFrame(f) ==
    /\ iter.status \in {"new", "open"}
    /\ ~eof
    /\ Len(sent) < MaxFrames
    /\ stream' = stream \o frame_bytes(f)
    /\ sent' = Append(sent, f)
    /\ UNCHANGED <<engineVars, peers, heard, asked, driverVars, handshakeVars, auxVars,
                   eof, cut, reader_size, iter, yielded>>

(* the remote end closes the connection after a whole frame *)
Close ==
    /\ iter.status \in {"new", "open"}
    /\ ~eof
    /\ eof' = TRUE
    /\ UNCHANGED <<engineVars, peers, heard, asked, driverVars, handshakeVars, auxVars,
                   stream, cut, sent, reader_size, iter, yielded>>

(* the connection is lost inside the last frame: its last n bytes never arrive *)
CloseMidFrame(n) ==
    /\ iter.status \in {"new", "open"}
    /\ ~eof
    /\ sent # << >>
    /\ n < Len(frame_bytes(sent[Len(sent)]))
    /\ Len(frame_bytes(sent[Len(sent)])) <= Len(stream)
    /\ stream' = SubSeq(stream, 1, Len(stream) - n)
    /\ eof' = TRUE
    /\ cut' = n
    /\ UNCHANGED <<engineVars, peers, heard, asked, driverVars, handshakeVars, auxVars,
                   sent, reader_size, iter, yielded>>

(* one call of PeerMessageIterator.__anext__ *)
Anext ==
    /\ iter.status = "open"
    /\ stream # << >> \/ eof
    /\ LET r == anext(stream, eof)
       IN  /\ r.status # "blocked"
           /\ stream' = r.rest
           /\ yielded' = yielded \o r.message
           /\ iter' = [status |-> IF r.status = "return" THEN "open" ELSE r.status,
                       logged |-> iter.logged \o r.logged]
    /\ UNCHANGED <<engineVars, peers, heard, asked, driverVars, handshakeVars, auxVars,
                   eof, cut, sent, reader_size>>

(* ------------------------------------------------ Client.on_incoming -- *)

(* a remote end connects from endpoint e and the first n bytes of its      *)
(* handshake arrive                                                          *)
Dial(h, n, e) ==
    /\ incoming.status = "listening"
    /\ hs_sent' = <<h>>
    /\ hs_data' = SubSeq(handshake_encode(h), 1, n)
    /\ incoming' = [incoming EXCEPT !.status = "connected", !.endpoint = e]
    /\ UNCHANGED <<engineVars, peers, heard, asked, driverVars, wireVars, auxVars>>

(* a torrent that would be found whatever info hash the handshake names *)
serves_any(info_hash) == TRUE

(* Client.on_incoming: the look-up of the torrent by handshake.info_hash *)
serves(info_hash) == info_hash = OurInfoHash

(* Torrent.insert_peer: the endpoint is appended unless the swarm holds it *)
insert_peer(sw, e) == IF \E k \in 1 .. Len(sw) : sw[k] = e THEN sw ELSE Append(sw, e)

(* Torrent.claim_peer(index), index counted from 0 *)
claim_peer(holds, index) == holds \cup {index + 1}

(* Client.on_incoming: reader.read(49 + len(PROTOCOL_STRING)), decode, look *)
(* the torrent up, check MAX_PEERS, insert and claim the peer, write the    *)
(* handshake and the bitfield, register a PeerClient                         *)
OnIncoming ==
    /\ incoming.status = "connected"
    /\ LET data == SubSeq(hs_data, 1, Min(49 + Len(PROTOCOL_STRING), Len(hs_data)))
           d    == handshake_decode(data)
           drop(st, hs) == /\ incoming' = [incoming EXCEPT !.status = st, !.handshake = hs]
                           /\ UNCHANGED <<swarm, swarm_holds, peer_clients>>
       IN  IF d[1] = "UnicodeDecodeError" THEN drop("closed", << >>)
           ELSE IF d[1] = "IndexError" THEN drop("IndexError", << >>)
           ELSE IF ~serves(d[2].info_hash) THEN drop("closed", <<d[2]>>)
           ELSE IF Len(swarm) >= MAX_PEERS THEN drop("closed", <<d[2]>>)
           ELSE /\ swarm' = insert_peer(swarm, incoming.endpoint)
                /\ swarm_holds' = claim_peer(swarm_holds, Len(swarm') - 1)
                /\ incoming' = [incoming EXCEPT !.status = "admitted", !.handshake = <<d[2]>>,
                                                !.out = <<"Handshake", "Bitfield">>]
                /\ peer_clients' = Append(peer_clients, incoming.endpoint)
    /\ UNCHANGED <<engineVars, peers, heard, asked, driverVars, wireVars, hs_sent, hs_data, ann, ben>>

(* the listener takes the next connection *)
Listen ==
    /\ incoming.status \notin {"listening", "connected"}
    /\ Len(peer_clients) < MaxIncoming
    /\ incoming' = NoIncoming
    /\ hs_sent' = << >>
    /\ hs_data' = << >>
    /\ UNCHANGED <<engineVars, peers, heard, asked, driverVars, wireVars, auxVars>>

(* ---------------------------------------------------- Torrent.announce -- *)

(* Torrent.peers: the list __init__ makes, to which nothing is ever added *)
self_peers == << >>

(* one turn of the loop over the tier: the request to url ann.url and the   *)
(* tracker's answer resp                                                     *)
AnnounceUrl(resp) ==
    /\ ann.error = None
    /\ ann.url <= NumUrls
    /\ LET peer_count_request == Max(NEW_CONNECTION_LIMIT - Len(self_peers), 0)
           new_peers == SelectSeq(resp.peers, LAMBDA e : \A k \in 1 .. Len(swarm) : swarm[k] # e)
       IN  /\ ann' = [ann EXCEPT !.url = IF resp.kind = "http" THEN @ ELSE @ + 1,
                                 !.numwant = peer_count_request,
                                 !.response = resp.kind,
                                 !.requests = @ + 1,
                                 !.error = IF resp.kind = "http" THEN "ConnectionError" ELSE None]
           /\ swarm' = IF resp.kind = "ok" /\ peer_count_request > 0
                         THEN swarm \o new_peers ELSE swarm
    /\ UNCHANGED <<engineVars, peers, heard, asked, driverVars, wireVars, handshakeVars,
                   swarm_holds, peer_clients, ben>>

(* announce() has tried every url of the tier and returns; the next round *)
AnnounceDone ==
    /\ ann.error = None
    /\ ann.url = NumUrls + 1
    /\ ann.rounds < MaxRounds
    /\ ann' = [ann EXCEPT !.url = 1, !.rounds = @ + 1]
    /\ UNCHANGED <<engineVars, peers, heard, asked, driverVars, wireVars, handshakeVars,
                   swarm, swarm_holds, peer_clients, ben>>

(* ------------------------------------------------ bencoding round ----- *)

(* decode(x) *)
BDecode(x) ==
    /\ ben.phase = "idle"
    /\ ben' = [ben EXCEPT !.phase = "decoded", !.x = x, !.decoded = bencoding_decode(x)]
    /\ UNCHANGED <<engineVars, peers, heard, asked, driverVars, wireVars, handshakeVars,
                   swarm, swarm_holds, peer_clients, ann>>

(* encode(value) of the value decode returned *)
BEncode ==
    /\ ben.phase = "decoded"
    /\ ben.decoded.status = "ok"
    /\ ben' = [ben EXCEPT !.phase = "encoded", !.encoded = bencoding_encode(ben.decoded.value)]
    /\ UNCHANGED <<engineVars, peers, heard, asked, driverVars, wireVars, handshakeVars,
                   swarm, swarm_holds, peer_clients, ann>>

Next ==
    \/ \E i \in PieceIdx, offset \in Offsets, data \in Blocks : RecieveBlock(i, offset, data)
    \/ VerifyStep
    \/ SaveNoFile
    \/ SaveOk
    \/ SaveOSError
    \/ RecycleStep

Spec == Init /\ [][Next]_vars

NextSched ==
    \/ \E p \in Peers, i \in PieceIdx : HandleHave(p, i)
    \/ \E p \in Peers : AskForBlock(p)
    \/ \E p \in Peers : asked[p] # << >> /\ \E data \in Answers(p) :
          RecieveBlock(asked[p][1], asked[p][2], data)
    \/ VerifyStep
    \/ SaveNoFile
    \/ SaveOk
    \/ SaveOSError
    \/ RecycleStep

SpecSched == Init /\ [][NextSched]_vars

NextDriver ==
    \E c \in Peers :
       \/ HandleChoke(c)
       \/ HandleUnchoke(c)
       \/ \E i \in PieceIdx : HandleHave(c, i)
       \/ HandleKeepAlive(c)
       \/ \E i \in PieceIdx, begin \in 0 .. (PieceLength - 1) :
             \E block \in {<<Content(i)[begin + 1]>>, <<0>>} : HandleBlock(c, i, begin, block)
       \/ CancelDriver(c)
       \/ RespondResume(c)
       \/ RespondTop(c)
       \/ RespondInner(c)

SpecDriver == Init /\ [][NextDriver]_vars

(* the connection-level behaviours start from a single-file torrent *)
InitNet == Init /\ Len(data_files) = 1

NextWire ==
    \/ \E k \in ReaderSizes : NewReader(k)
    \/ \E f \in Messages \cup UnknownFrames : SendFrame(f)
    \/ Close
    \/ \E n \in 1 .. MaxCut : CloseMidFrame(n)
    \/ Anext

SpecWire == InitNet /\ [][NextWire]_vars

NextHandshake ==
    \/ \E h \in Handshakes, n \in 0 .. (49 + Len(PROTOCOL_STRING)) : Dial(h, n, 1)
    \/ OnIncoming

SpecHandshake == InitNet /\ [][NextHandshake]_vars

NextSwarm ==
    \/ \E resp \in TrackerResponses : AnnounceUrl(resp)
    \/ AnnounceDone
    \/ \E ih \in InfoHashes, e \in Endpoints :
          Dial(DefaultHandshake(ih, OurPeerId), 49 + Len(PROTOCOL_STRING), e)
    \/ OnIncoming
    \/ Listen

SpecSwarm == InitNet /\ [][NextSwarm]_vars

NextBencode ==
    \/ \E x \in BenInputs : BDecode(x)
    \/ BEncode

SpecBencode == InitNet /\ [][NextBencode]_vars

(* the BITFIELD payloads of a torrent of up to eight pieces: no piece, piece *)
(* 0, piece 1, pieces 0 and 1                                                *)
BitfieldPayloads == {<<0>>, <<128>>, <<64>>, <<192>>}

NextBook ==
    \E c \in Peers :
       \/ HandleChoke(c)
       \/ HandleUnchoke(c)
       \/ HandleInterested(c)
       \/ HandleNotInterested(c)
       \/ \E i \in PieceIdx : HandleHave(c, i)
       \/ \E payload \in BitfieldPayloads : HandleBitfield(c, payload)

SpecBook == InitNet /\ [][NextBook]_vars

(* a torrent whose last piece is short.  No piece of it reaches p.save: the  *)
(* first piece has no file (get_piece_file), the last never verifies.        *)
InitLast == InitWith(ShortTables)

NextLast ==
    \/ \E i \in PieceIdx, offset \in Offsets, data \in Blocks : RecieveBlock(i, offset, data)
    \/ VerifyStep
    \/ SaveNoFile
    \/ RecycleStep

SpecLast == InitLast /\ [][NextLast]_vars

(* what an earlier run can have left in a file of this size: up to one      *)
(* piece length of bytes                                                     *)
PriorContents(size) == SeqsUpTo(Byte, Min(size, PieceLength))

(* Piece.save on its own: every piece downloaded and verified, the target    *)
(* files holding what an earlier run has left in them                        *)
InitSave ==
    /\ data_files \in FileTables
    /\ pieces = [i \in PieceIdx |-> verify(i, download(NewPiece, 0, Content(i)))]
    /\ disk \in IF Len(data_files) = 1
                   THEN {<<a>> : a \in PriorContents(data_files[1])}
                   ELSE {<<a, b>> : a \in PriorContents(data_files[1]),
                                    b \in PriorContents(data_files[2])}
    /\ InitRest

NextSave ==
    \E i \in PieceIdx, f \in 1 .. Len(data_files), offset \in 0 .. (NumPieces - 1) :
       PieceSave(i, f, offset)

SpecSave == InitSave /\ [][NextSave]_vars
(* ------------------------------------------------------------ claims --- *)

Flags(p) == <<p.downloaded, p.verified, p.saved>>

(* the four flag patterns that stand for EMPTY, FULL, VERIFIED and SAVED *)
StateFlags ==
    {<<FALSE, FALSE, FALSE>>, <<TRUE, FALSE, FALSE>>, <<TRUE, TRUE, FALSE>>, <<TRUE, TRUE, TRUE>>}

AllowedTransitions ==
    {<<"EMPTY", "FULL">>, <<"FULL", "VERIFIED">>, <<"VERIFIED", "SAVED">>, <<"FULL", "EMPTY">>}

(* C1: no in-flight piece has block requests outstanding at two different   *)
(* connections at the same time.                                            *)
C1_AtMostOneHolder ==
    \A p, q \in Peers :
       p # q /\ asked[p] # << >> /\ asked[q] # << >> => asked[p][1] # asked[q][1]

(* C2: once the driver of a connection has ended, the piece it had claimed *)
(* is no longer in piece_holds.                                             *)
C2_EndReleasesHold ==
    \A c \in Peers :
       clients[c].status = "ended" => clients[c].piece \cap piece_holds = {}

(* C3: every change of a piece's state is EMPTY->FULL, FULL->VERIFIED,       *)
(* VERIFIED->SAVED, or FULL->EMPTY with the buffer cleared.                  *)
C3_OnlyLegalTransitions ==
    [][\A i \in PieceIdx :
          State(pieces'[i]) # State(pieces[i]) =>
             /\ <<State(pieces[i]), State(pieces'[i])>> \in AllowedTransitions
             /\ (State(pieces'[i]) = "EMPTY" => pieces'[i].buffer = << >>)]_vars

(* a recieve_block call on piece i is in progress *)
InCallOn(i) == call.pc # "idle" /\ call.piece = i

C5_HashBeforeWrite ==
    [][\A f \in DOMAIN disk :
          disk'[f] # disk[f] /\ disk'[f] # << >> =>
             /\ call.pc = "verified"
             /\ pieces[call.piece].verified
             /\ pieces[call.piece].buffer = Content(call.piece)
             /\ \E n \in 0 .. Len(disk'[f]) :
                   disk'[f] = [k \in 1 .. n |-> 0] \o pieces[call.piece].buffer]_vars

C5_Witness ==
    /\ last.outcome = "saved"
    /\ \E f \in DOMAIN disk : Len(disk[f]) >= PieceLength

(* C6: when recieve_block has delivered the block that completes a piece    *)
(* and the buffer hashed to the expected hash (and the write did not fail), *)
(* the piece is SAVED and the file holds its bytes at its byte offset.      *)
C6_CompletedPieceIsSaved ==
    last.outcome \in {"saved", "TypeError"} =>
       /\ State(pieces[last.piece]) = "SAVED"
       /\ SubSeq(disk[HomeFile(last.piece)], HomeOffset(last.piece) + 1,
                 HomeOffset(last.piece) + PieceLength) = Content(last.piece)

(* C7 as stated: once verify() has returned false the piece is EMPTY with   *)
(* an empty buffer.                                                         *)
C7_VerifyResets ==
    call.pc = "mismatch" =>
       State(pieces[call.piece]) = "EMPTY" /\ pieces[call.piece].buffer = << >>

(* C7 amended: verify() on a buffer that does not hash to the expected hash *)
(* returns false and changes neither the piece nor the file; recieve_block  *)
(* then recycles the piece, so that on its return the piece is EMPTY with   *)
(* an empty buffer, no error has surfaced and the file is unchanged.        *)
C7_MismatchRecycled ==
    [][/\ (call.pc = "verify" /\ sha1(pieces[call.piece].buffer) # piece_hash(call.piece) =>
              call'.pc = "mismatch" /\ pieces' = pieces /\ disk' = disk)
       /\ (call.pc = "mismatch" =>
              /\ pieces'[call.piece] = NewPiece
              /\ \A j \in PieceIdx \ {call.piece} : pieces'[j] = pieces[j]
              /\ disk' = disk
              /\ call' = Idle
              /\ last'.outcome = "mismatch")]_vars

C7_Witness ==
    /\ call.pc = "idle"
    /\ last.outcome = "mismatch"
    /\ pieces[last.piece] = NewPiece
    /\ \A f \in DOMAIN disk : disk[f] = << >>

C9_WriteOnlyWhenEmpty ==
    [][\A i \in PieceIdx :
          /\ (call.pc = "idle" /\ State(pieces[i]) # "EMPTY" => pieces'[i] = pieces[i])
          /\ Len(pieces'[i].buffer) <= PieceLength]_vars

(* C10: a block written at an offset of an EMPTY piece (the block inside    *)
(* the piece) is afterwards found at buffer[offset : offset + len(block)],  *)
(* and the bytes written before at other offsets are unchanged.             *)
C10_BlockLandsAtOffset ==
    [][call.pc = "idle" /\ total_downloaded' # total_downloaded =>
          LET i   == last'.piece
              off == last'.offset
              blk == last'.data
          IN  State(pieces[i]) = "EMPTY" /\ off + Len(blk) <= PieceLength =>
                 /\ Len(pieces'[i].buffer) >= off + Len(blk)
                 /\ SubSeq(pieces'[i].buffer, off + 1, off + Len(blk)) = blk
                 /\ \A k \in 1 .. Len(pieces[i].buffer) :
                       (k <= off \/ k > off + Len(blk)) =>
                          /\ k <= Len(pieces'[i].buffer)
                          /\ pieces'[i].buffer[k] = pieces[i].buffer[k]]_vars

(* --------------------------------------------------- Torrent.bitfield --- *)

(* Torrent.bitfield after the loop has visited pieces 0 .. n-1 *)
RECURSIVE bitfield_loop(_, _)
bitfield_loop(ps, n) ==
    IF n = 0 THEN 0
    ELSE LET rv == bitfield_loop(ps, n - 1)
         IN  IF ps[n - 1].saved THEN SetBit0(rv) ELSE ShiftLeft(rv)

(* Torrent.bitfield *)
bitfield(ps) == bitfield_loop(ps, NumPieces)

(* C11: bit i of the local bitfield is set if and only if piece i is SAVED. *)
C11_BitfieldMatchesSaved ==
    \A i \in PieceIdx : (GetBit(bitfield(pieces), i) = 1) <=> (State(pieces[i]) = "SAVED")

(* ------------------------------------------------ block selection ------- *)

(* the pieces in flight: the indexes held in Torrent.downloading *)
InFlight == {downloading[k] : k \in 1 .. Len(downloading)}

(* ask_for_block(p) finds no piece in flight that the peer has *)
NothingInFlightFor(p) == InFlight \cap peers[p].piecefield = {}

(* the pieces a fresh selection for peer p may pick *)
Eligible(p) ==
    {i \in PieceIdx : i \in peers[p].piecefield /\ i \notin InFlight /\ ~pieces[i].verified}

(* this step is a call of ask_for_block(p) that handed out a request *)
Asked(p) == asked'[p] # asked[p] /\ asked'[p] # << >>

(* C12: a fresh selection for a peer picks, among the pieces eligible for   *)
(* it, one that the fewest peers of the swarm have.                          *)
C12_RarestFirst ==
    [][\A p \in Peers :
          Asked(p) /\ NothingInFlightFor(p) =>
             \A j \in Eligible(p) : rarity_of(peers, asked'[p][1]) <= rarity_of(peers, j)]_vars

(* C13: a request for a piece in flight starts at the next unfilled offset  *)
(* and asks for min(block_request_size, remaining) bytes, so that           *)
(* begin + length never exceeds the piece length.                            *)
C13_RequestWithinPiece ==
    [][\A p \in Peers :
          Asked(p) /\ ~NothingInFlightFor(p) =>
             /\ asked'[p][1] \in InFlight \cap peers[p].piecefield
             /\ asked'[p][2] = Len(pieces[asked'[p][1]].buffer)
             /\ asked'[p][3] = Min(BLOCK_REQUEST_SIZE, PieceLength - asked'[p][2])
             /\ asked'[p][2] + asked'[p][3] <= PieceLength]_vars

(* C14: a fresh selection picks an eligible piece, claims it (its index is  *)
(* in the hold set when the request is returned) and asks at offset 0; with *)
(* no eligible piece it returns nothing.                                     *)
C14_FreshSelectionClaims ==
    [][\A p \in Peers :
          /\ Asked(p) /\ NothingInFlightFor(p) =>
                /\ asked'[p][1] \in Eligible(p)
                /\ asked'[p][2] = 0
                /\ asked'[p][1] \in {downloading'[k] : k \in 1 .. Len(downloading')}
          /\ (asked'[p] # asked[p] /\ asked'[p] = << >> /\ UNCHANGED pieces /\ NothingInFlightFor(p)
                => Eligible(p) = {})]_vars

(* ------------------------------------------------ wire codec claims --- *)

IsPrefix(a, b) == Len(a) <= Len(b) /\ a = SubSeq(b, 1, Len(a))

(* every frame sent so far is one of the eleven message cases and arrived whole *)
WholeFrames == cut = 0 /\ \A k \in 1 .. Len(sent) : sent[k].type # "Unknown"

(* what the iterator has yielded is what was sent, as far as it has got *)
YieldsWhatWasSent ==
    /\ IsPrefix(yielded, sent)
    /\ iter.status \in {"new", "open", "StopAsyncIteration"}
    /\ (iter.status = "StopAsyncIteration" => yielded = sent)

(* C15: a message's encoding is the 4-byte big-endian length followed by    *)
(* exactly that many bytes, the id first; read whole, the frames decode to  *)
(* messages equal to those that were encoded.                                *)
C15_RoundTrip ==
    /\ \A k \in 1 .. Len(sent) :
          sent[k].type # "Unknown" =>
             LET b == encode(sent[k])
             IN  /\ Len(b) >= 4
                 /\ b[1] * 16777216 + b[2] * 65536 + b[3] * 256 + b[4] = Len(b) - 4
                 /\ Len(b) - 4 = sent[k].length
                 /\ (sent[k].type # "KeepAlive" => b[5] = message_id(sent[k].type))
    /\ (reader_size = 0 /\ WholeFrames => YieldsWhatWasSent)

C15_Witness ==
    /\ reader_size = 0 /\ WholeFrames
    /\ iter.status = "StopAsyncIteration"
    /\ Len(sent) = MaxFrames
    /\ yielded = sent
    /\ \E k \in 1 .. Len(sent) : sent[k].type = "Block" /\ sent[k].block # << >>
    /\ \E k \in 1 .. Len(sent) : sent[k].type = "Request" /\ sent[k].size > 65535

(* C16: whatever the most bytes a read returns, whole frames are yielded as *)
(* the messages that were sent, in order.                                    *)
C16_PartialReads == WholeFrames => YieldsWhatWasSent

(* C17: a frame with an unknown id ends the iteration with an error, not    *)
(* with the end-of-stream a closed connection gives.                         *)
C17_UnknownIdIsError ==
    reader_size = 0 /\ cut = 0 /\ iter.logged # << >> => iter.status # "StopAsyncIteration"

(* C18: a connection closed on a frame boundary ends the iteration cleanly  *)
(* after every message; one closed inside a frame ends it with an error and *)
(* the cut frame yields no message.                                          *)
C18_EofMidFrame ==
    reader_size = 0 /\ eof /\ (\A k \in 1 .. Len(sent) : sent[k].type # "Unknown") =>
       IF cut = 0
         THEN YieldsWhatWasSent
       ELSE /\ IsPrefix(yielded, SubSeq(sent, 1, Len(sent) - 1))
            /\ iter.status # "StopAsyncIteration"

(* ------------------------------------------------ handshake claims ---- *)

(* on_incoming has dealt with the connection *)
HandshakeHandled == incoming.status \notin {"listening", "connected"}

(* C19: a handshake built with the default protocol string encodes to 68    *)
(* bytes, pstrlen, pstr, 8 reserved bytes, info_hash, peer_id, and decodes  *)
(* to the info_hash and the peer_id it was built from.                       *)
C19_HandshakeRoundTrip ==
    HandshakeHandled /\ hs_sent[1].protocol_string = PROTOCOL_STRING
                     /\ hs_data = handshake_encode(hs_sent[1]) =>
       /\ Len(hs_data) = 68
       /\ hs_data = <<19>> \o PROTOCOL_STRING \o Zeros(8)
                          \o hs_sent[1].info_hash \o hs_sent[1].peer_id
       /\ incoming.handshake # << >>
       /\ incoming.handshake[1].info_hash = hs_sent[1].info_hash
       /\ incoming.handshake[1].peer_id = hs_sent[1].peer_id

C19_Witness ==
    /\ incoming.status = "admitted"
    /\ hs_data = handshake_encode(hs_sent[1])
    /\ Len(hs_data) = 68
    /\ incoming.handshake = hs_sent

(* C20: a handshake shorter than 1 + pstrlen + 8 + 20 + 20 bytes is         *)
(* rejected: no handshake is decoded from it and the connection is closed.  *)
C20_ShortHandshakeRejected ==
    HandshakeHandled /\ (hs_data = << >> \/ Len(hs_data) < 1 + hs_data[1] + 8 + 20 + 20) =>
       /\ incoming.status = "closed"
       /\ incoming.handshake = << >>


(* ------------------------------------------------ driver claims ------- *)

(* C27: whatever well-framed messages a peer sends, its driver ends with no *)
(* unhandled error: it keeps running, or ends by cancellation or disk error. *)
C27_NoUnhandledError ==
    \A c \in Peers : clients[c].error \in {None, "CancelledError", "OSError"}

(* the step appends a REQUEST to the messages written to peer c *)
SendsRequest(c) ==
    /\ Len(clients'[c].out) > Len(clients[c].out)
    /\ clients'[c].out[Len(clients'[c].out)][1] = "Request"

(* C29: no REQUEST is written to a peer that is choking us. *)
C29_NoRequestWhileChoked ==
    [][\A c \in Peers : SendsRequest(c) => ~peers[c].is_choking]_vars

(* C30: a driver that answered INTERESTED while choked is still able to     *)
(* respond once the peer has unchoked and has a piece to claim: resuming    *)
(* respond() does not find the generator exhausted.                          *)
C30_RequestsAfterUnchoke ==
    [][\A c \in Peers :
          /\ clients[c].gen = "at_interested"
          /\ ~peers[c].is_choking
          /\ claimable(peers[c].piecefield) # {}
          => clients'[c].error # "StopAsyncIteration"]_vars

(* C21: an inbound connection whose handshake decodes and names an info_hash *)
(* of no served torrent is closed and changes nothing: the swarm, the set of *)
(* claimed swarm indexes, the registry of connections and the peers' state   *)
(* stay as they were, and neither a handshake nor a BITFIELD is written.     *)
NamesUnknown(inc) ==
    /\ inc.handshake # << >>
    /\ inc.handshake[1].info_hash # OurInfoHash

C21_UnknownInfoHashClosed ==
    [][incoming.status = "connected" /\ incoming'.status # "connected" /\ NamesUnknown(incoming')
         => /\ incoming'.status = "closed"
            /\ incoming'.out = << >>
            /\ UNCHANGED <<swarm, swarm_holds, peer_clients, peers, engineVars>>]_vars

C21_Witness ==
    /\ incoming.status = "closed"
    /\ NamesUnknown(incoming)
    /\ incoming.out = << >>
    /\ Len(swarm) > 0
    /\ Len(swarm) < MAX_PEERS
    /\ Len(peer_clients) > 0

(* C22: a well-formed inbound handshake that names the served torrent is     *)
(* rejected only when the torrent has MAX_PEERS or more active connections;  *)
(* a large swarm of known peers is no reason to refuse it.                   *)
C22_RejectedOnlyWhenFull ==
    [][/\ incoming.status = "connected"
       /\ incoming'.status = "closed"
       /\ incoming'.handshake # << >>
       /\ incoming'.handshake[1].info_hash = OurInfoHash
       => Len(peer_clients) >= MAX_PEERS]_vars

(* C23: the registry never holds two connections for the same endpoint. *)
C23_NoDuplicateConnection ==
    \A i, j \in 1 .. Len(peer_clients) : peer_clients[i] = peer_clients[j] => i = j

(* C24: the swarm never holds the same endpoint (ip, port) twice, whatever   *)
(* the trackers answered and whoever connected.                              *)
C24_SwarmUnique ==
    \A i, j \in 1 .. Len(swarm) : swarm[i] = swarm[j] => i = j

(* C25: the numwant of every announce request is                            *)
(* max(NEW_CONNECTION_LIMIT - len(swarm), 0), the swarm being the one at the *)
(* time of the request.                                                      *)
C25_NumwantFromSwarm ==
    [][ann'.requests > ann.requests
         => ann'.numwant = Max(NEW_CONNECTION_LIMIT - Len(swarm), 0)]_vars

(* C26: an announce that fails, by a status other than 200 or by a failure   *)
(* reason, inserts no peer, is followed by the next URL of the tier, and     *)
(* raises nothing out of the announce loop.                                  *)
C26_TrackerFailureSkipped ==
    [][ann'.requests > ann.requests /\ ann'.response \in {"http", "failure"}
         => /\ swarm' = swarm
            /\ ann'.url = ann.url + 1
            /\ ann'.error = None]_vars

(* C28: every well-formed bencoded input decodes, and encoding the decoded   *)
(* value gives the input back, byte for byte.                                *)
C28_BencodingRoundTrip ==
    /\ ben.phase = "decoded" => ben.decoded.status = "ok"
    /\ ben.phase = "encoded" => ben.encoded[1] = "ok" /\ ben.encoded[2] = ben.x

(* C31: no connection writes a REQUEST before it has written INTERESTED,     *)
(* also when the peer unchoked before the driver's first response.           *)
WroteInterested(c) == \E k \in 1 .. Len(clients[c].out) : clients[c].out[k][1] = "Interested"

C31_InterestedBeforeRequest ==
    [][\A c \in Peers : SendsRequest(c) => WroteInterested(c)]_vars

(* C32: a KEEP_ALIVE is answered with exactly one keep-alive frame and       *)
(* leaves the connection active, with the peers' flags and piecefields and   *)
(* the piece holds as they were.                                             *)
EchoesKeepAlive(c) ==
    /\ Len(clients'[c].out) > Len(clients[c].out)
    /\ clients'[c].out[Len(clients'[c].out)][1] = "KeepAlive"

C32_KeepAliveEchoed ==
    [][\A c \in Peers :
          EchoesKeepAlive(c) =>
             /\ Len(clients'[c].out) = Len(clients[c].out) + 1
             /\ clients'[c].status = "active"
             /\ clients'[c].piece = clients[c].piece
             /\ UNCHANGED <<peers, piece_holds>>]_vars

(* C33: the peer's choking flag is set unless the last of its CHOKE and      *)
(* UNCHOKE messages was an UNCHOKE, and its interested flag is set exactly   *)
(* when the last of its INTERESTED and NOT_INTERESTED messages was an        *)
(* INTERESTED; a message of one kind leaves the other flag alone.            *)
C33_ChokeInterestFlags ==
    \A c \in Peers :
       /\ peers[c].is_choking = (heard[c].choke # "Unchoke")
       /\ peers[c].is_interested = (heard[c].interest = "Interested")

C33_Witness ==
    \E c, d \in Peers :
       /\ heard[c].choke = "Unchoke" /\ ~peers[c].is_choking
       /\ heard[c].interest = "NotInterested" /\ ~peers[c].is_interested
       /\ heard[d].choke = "Choke" /\ peers[d].is_choking
       /\ heard[d].interest = "Interested" /\ peers[d].is_interested

(* C34: the peer's piecefield has piece i exactly when its last BITFIELD had *)
(* bit i set, piece 0 being the high bit of byte 0, or a HAVE(i) came after  *)
(* that BITFIELD.                                                            *)
wire_pieces(payload) ==
    {i \in PieceIdx : i \div 8 < Len(payload)
                      /\ (payload[(i \div 8) + 1] \div (2 ^ (7 - (i % 8)))) % 2 = 1}

C34_PiecefieldFollowsMessages ==
    \A c \in Peers :
       peers[c].piecefield =
          (IF heard[c].bitfield = << >> THEN {} ELSE wire_pieces(heard[c].bitfield[1]))
          \cup heard[c].have

(* C35: for every piece, the first piece of a file included, get_piece_file  *)
(* returns the file whose interval of piece indexes contains the piece, with *)
(* that file's first index (it does not return None, whose unpacking raises  *)
(* TypeError), and the piece is written at (i - first index) * piece length  *)
(* of that file.                                                             *)
C35_PieceFileResolved ==
    LET i == last.piece
    IN  IF last.outcome = "TypeError" THEN FALSE
        ELSE last.outcome = "saved" =>
                /\ get_piece_file(data_files, i)
                     = <<PiecesBefore(data_files, HomeFile(i)), HomeFile(i)>>
                /\ Len(disk[HomeFile(i)]) >= HomeOffset(i) + PieceLength
                /\ SubSeq(disk[HomeFile(i)], HomeOffset(i) + 1,
                          HomeOffset(i) + PieceLength) = Content(i)

(* C38: Torrent.downloading holds no index twice, and once recieve_block has *)
(* returned with the piece saved, or recycled after a hash mismatch or an    *)
(* I/O error, the index of the piece is not in it.                           *)
C38_DownloadingIsInFlight ==
    /\ \A j, k \in 1 .. Len(downloading) : downloading[j] = downloading[k] => j = k
    /\ (call.pc = "idle" /\ last.outcome \in {"saved", "mismatch", "OSError"}
          => last.piece \notin InFlight)

(* C39: ask_for_block never returns a request for a piece that is VERIFIED   *)
(* or SAVED, from its first loop or from its second.                         *)
C39_NoRequestForFinishedPiece ==
    [][\A p \in Peers :
          Asked(p) => State(pieces[asked'[p][1]]) \notin {"VERIFIED", "SAVED"}]_vars

(* C36: the last piece of a torrent is as long as what is left of the        *)
(* torrent: once recieve_block has returned with that many bytes in the      *)
(* buffer of a piece, the piece is not EMPTY any more (it was found complete *)
(* and passed on to verification).                                           *)
C36_LastPieceLength ==
    \A i \in PieceIdx :
       call.pc = "idle" /\ Len(pieces[i].buffer) = piece_bytes(i) => State(pieces[i]) # "EMPTY"

(* C37: a save changes the file only between byte_offset and byte_offset +   *)
(* the length of the piece: every byte the file held outside that range is   *)
(* still there afterwards, so the pieces saved before stay in the file.      *)
C37_SaveKeepsOtherBytes ==
    [][\A f \in DOMAIN disk :
          disk'[f] # disk[f] =>
             LET lo == last'.offset * PieceLength
                 hi == lo + Len(last'.data)
             IN  \A k \in 1 .. Len(disk[f]) :
                    (k <= lo \/ k > hi) => k <= Len(disk'[f]) /\ disk'[f][k] = disk[f][k]]_vars

(* C40: a connection has at most one claimed piece, and what it has is held  *)
(* for it.  It claims a piece only when it has none, the piece then being    *)
(* held by nobody; it gives a piece up only with the hold released, the      *)
(* piece being SAVED or recycled after a failed verification; and every      *)
(* REQUEST it writes is for the piece it has.                                *)
C40_OnePieceAtATime ==
    [][\A c \in Peers :
          /\ Cardinality(clients'[c].piece) <= 1
          /\ clients'[c].piece \subseteq piece_holds'
          /\ (clients'[c].piece # clients[c].piece =>
                 \/ /\ clients[c].piece = {}
                    /\ clients'[c].piece \cap piece_holds = {}
                 \/ /\ clients'[c].piece = {}
                    /\ clients[c].piece \cap piece_holds' = {}
                    /\ \A i \in clients[c].piece :
                          State(pieces'[i]) = "SAVED" \/ pieces'[i] = NewPiece)
          /\ (SendsRequest(c) =>
                 clients'[c].out[Len(clients'[c].out)][2] \in clients'[c].piece)]_vars

(* a connection that has written two REQUESTs for a piece: it returned the   *)
(* piece after a failed verification and claimed it again                    *)
C40_Witness ==
    \E c \in Peers, i \in PieceIdx :
       /\ clients[c].piece = {i}
       /\ i \in piece_holds
       /\ Len(clients[c].out) = 2
       /\ \A k \in 1 .. 2 : clients[c].out[k] = <<"Request", i, 0, BLOCK_REQUEST_SIZE>>

====
